---- MODULE Spec2Model ----
(***************************************************************************)
(* mbrgo: MySQL full backup scheduler, binlog capture loop, segment writer *)
(* and position cursor store.                                              *)
(*                                                                         *)
(* Sizes are counted in MiB: a DATA payload is a sequence of 1 MiB chunks, *)
(* each chunk labelled with the number of the event that carried it.       *)
(* Times are counted in ticks; a day has DayLen ticks and a weekday is a   *)
(* number 0..6 (Sunday = 0, as time.Weekday). A time of day HH:MM is a     *)
(* tick boundary; a clock reading lies on boundary tod when exact holds,   *)
(* and strictly between the boundaries tod and tod + 1 otherwise.          *)
(***************************************************************************)
EXTENDS Integers, Sequences, FiniteSets, TLC

\* ------------------------------------------------------------------ bounds
DayLen == 4
MaxPos == 21
MaxEvents == 3
MaxPayload == 4
MaxFires == 2
MaxFaults == 1

\* ------------------------------------------------------- program constants
bufferSize == 2
maxFileSize == 10

Weekdays == 0..6
TimesOfDay == 0..(DayLen - 1)
Sessions == 1..MaxFires
NoSession == 0
NoFile == 0
Absent == <<"absent">>
NoObj == <<-1>>

VARIABLES
    now,            \* time.Now() read by scheduleBackup: [wd, tod, exact]
    weekday,        \* parsed ScheduleSpec weekday
    hour,           \* parsed ScheduleSpec time of day
    nextBackup,     \* first fire time, in ticks since today 00:00; -1 before it is computed
    schedPc,        \* position of the scheduler goroutine
    fullErr,        \* MysqlBackup of the running fire has failed
    incCancel,      \* *incCancel: the session whose cancel func is stored, NoSession for nil
    master,         \* what SHOW MASTER STATUS returns during each fire
    backupRun,      \* the run of backup() on each fire: how long it takes, and the
                    \* server's offset when the dump's transaction took its snapshot
    tickerStart,    \* when time.NewTicker was called, in ticks since today 00:00; -1 before
    fireAt,         \* history: when each fire happened, in ticks since today 00:00
    cliArgs,        \* the weekday and hour strings given to EnableAllBackupScheduler
    fileName,       \* the file name handed to getS3Key
    s3Key,          \* the key (or the error) getS3Key returned for it
    streamKey,      \* the key (or the error) getStreamS3Key returned for its path
    mb,             \* a call of MysqlBackup: its arguments, its position, what has
                    \* failed in it so far and the error it returned
    metadata,       \* content of binlog_position.txt (sequence of characters) or Absent
    pc,             \* position of each capture goroutine
    ctxDone,        \* ctx.Done() is closed for the session
    ev,             \* the event a loop is processing
    fileArg,        \* the file handle passed to processEvent / rotateFile
    startPos,       \* position passed to syncer.StartSync
    buffer,         \* global buffer
    currentSize,    \* global currentSize
    fileIndex,      \* global fileIndex
    currentFile,    \* global currentFile: number of the file, NoFile for nil
    currentBinlog,  \* global currentBinlog
    files,          \* local segment files, in creation order
    tasks,          \* upload goroutines spawned by rotateFile and not yet run
    s3seg,          \* remote objects written by UploadBufferToS3, per segment key
    weekly,         \* remote weekly-binlog.log object written by StreamBinlogToS3
    alive,          \* the process has not exited through log.Fatalf
    fires,          \* history: number of timer/ticker fires so far
    firstFile,      \* the file each session opened in streamData (closed by its defer)
    delivered,      \* history: payloads appended to the buffer, in order
    writeFailed,    \* history: a write to a segment file has failed
    faults,         \* history: number of failures injected by the environment
    evCount,        \* history: number of events returned by GetEvent
    applied,        \* history: number of events each session handed to processEvent
                    \* after its ctx was cancelled
    handed          \* history: the files rotateFile has spawned an upload goroutine for

vars == <<now, weekday, hour, nextBackup, schedPc, fullErr, incCancel, master, backupRun,
          tickerStart, fireAt, cliArgs, fileName, s3Key, streamKey, mb, metadata,
          pc, ctxDone, ev, fileArg, startPos,
          buffer, currentSize, fileIndex, currentFile, currentBinlog,
          files, tasks, s3seg, weekly, alive, fires, firstFile,
          delivered, writeFailed, faults, evCount, applied, handed>>

schedVars == <<now, weekday, hour, nextBackup, schedPc, fullErr, incCancel, master, fires,
               backupRun, tickerStart, fireAt, cliArgs>>
keyVars == <<fileName, s3Key, streamKey>>
callVars == <<mb>>
loopVars == <<pc, ev, fileArg, startPos, firstFile>>
writerVars == <<buffer, currentSize, fileIndex, currentFile, currentBinlog, files>>
uploadVars == <<tasks, s3seg, weekly>>
histVars == <<delivered, writeFailed, evCount, applied, handed>>

\* ------------------------------------------------------- first fire time
\* now.After(nextBackup), nextBackup being today at hour
After(n, h) == IF n.exact THEN n.tod > h ELSE n.tod >= h

DaysToAdd_NoRoll(wd, nowWd, after) == (wd - nowWd + 7) % 7

DaysToAdd(wd, nowWd, after) ==
    LET d == (wd - nowWd + 7) % 7
    IN  IF d = 0 \/ after THEN 7 ELSE d

FirstFire(n, wd, h) ==
    IF After(n, h) \/ n.wd # wd
    THEN h + DayLen * DaysToAdd(wd, n.wd, After(n, h))
    ELSE h

\* the occurrences of weekday wd at time h within the coming eight days
Occurrences(n, wd, h) ==
    { d * DayLen + h : d \in { x \in 0..7 : (n.wd + x) % 7 = wd } }

NextOccurrence(n, wd, h) ==
    LET S == { t \in Occurrences(n, wd, h) : t > n.tod }
    IN  CHOOSE t \in S : \A u \in S : t <= u

\* ------------------------------------------------- position cursor store
DigitChars == <<"0", "1", "2", "3", "4", "5", "6", "7", "8", "9">>
IsDigit(c) == \E i \in 1..10 : DigitChars[i] = c
DigitVal(c) == (CHOOSE i \in 1..10 : DigitChars[i] = c) - 1
IsSpace(c) == c = " "
IsNewline(c) == c = "\n"

Names == { <<"b", "1">>, <<"b", "2">>, <<"b", ".", "3">> }
Positions == 0..MaxPos

RECURSIVE FormatUint(_)
FormatUint(n) ==
    IF n < 10 THEN <<DigitChars[n + 1]>>
    ELSE FormatUint(n \div 10) \o <<DigitChars[(n % 10) + 1]>>

\* fmt.Sprintf("%s %d\n", binlogFile, binlogPos)
FormatRecord(name, p) == name \o <<" ">> \o FormatUint(p) \o <<"\n">>

Drop(t, n) == SubSeq(t, n + 1, Len(t))

\* ss.SkipSpace: consumes blanks, stops in front of anything else
RECURSIVE SkipSpace(_)
SkipSpace(t) ==
    IF t # <<>> /\ IsSpace(Head(t)) THEN SkipSpace(Tail(t)) ELSE t

\* ss.token(true, notSpace): the longest run of non-space characters
RECURSIVE Token(_)
Token(t) ==
    IF t = <<>> \/ IsSpace(Head(t)) \/ IsNewline(Head(t)) THEN <<>>
    ELSE <<Head(t)>> \o Token(Tail(t))

\* ss.scanNumber: the longest run of decimal digits
RECURSIVE DigitRun(_)
DigitRun(t) ==
    IF t = <<>> \/ ~IsDigit(Head(t)) THEN <<>>
    ELSE <<Head(t)>> \o DigitRun(Tail(t))

ParseUint_FirstDigit(ds) == IF ds = <<>> THEN 0 ELSE DigitVal(ds[1])

\* strconv.ParseUint(tok, 10, 64)
RECURSIVE ParseUint(_)
ParseUint(ds) ==
    IF ds = <<>> THEN 0
    ELSE 10 * ParseUint(SubSeq(ds, 1, Len(ds) - 1)) + DigitVal(ds[Len(ds)])

\* fmt.Fscanf(file, "%s %d", &binlogFile, &binlogPos): a field that cannot be
\* scanned keeps its zero value, and scanning stops at the first error
Fscanf(t) ==
    LET t1 == SkipSpace(t)
        name == Token(t1)
        t2 == SkipSpace(Drop(t1, Len(name)))
        digits == DigitRun(t2)
    IN  IF name = <<>> THEN [Name |-> <<>>, Pos |-> 0]
        ELSE [Name |-> name, Pos |-> ParseUint(digits)]

\* os.Open fails on an absent file and the scan of the nil file fails
getLastBinlogPosition(meta) ==
    IF meta = Absent THEN [Name |-> <<>>, Pos |-> 0] ELSE Fscanf(meta)

\* ------------------------------------------------------- segment writer
NoEvent == [kind |-> "none", raw |-> <<>>, next |-> <<>>, snap |-> <<>>]

\* the payload of the k-th event: n chunks labelled k
Payload(k, n) == [i \in 1..n |-> k]

\* a payload is smaller than the flush threshold or larger than it
PayloadLens == {1, MaxPayload}

DataEvents(k) == { [kind |-> "DATA", raw |-> Payload(k, n), next |-> <<>>, snap |-> <<>>] :
                   n \in PayloadLens }
\* the log names a RotateEvent may announce
NextLogNames == { <<"b", "2">> }

RotateEvents == { [kind |-> "ROTATE", raw |-> <<>>, next |-> nm, snap |-> <<>>] :
                  nm \in NextLogNames }

\* os.Create in openNewFile: the new file, named after currentBinlog and fileIndex
NewFile == [binlog |-> currentBinlog, index |-> fileIndex, data |-> <<>>, closed |-> FALSE]

\* file.Write(b) on file f writing the first n bytes of b
WriteBytes(fs, f, b, n) == [fs EXCEPT ![f].data = @ \o SubSeq(b, 1, n)]

\* file.Close()
CloseFile(fs, f) == [fs EXCEPT ![f].closed = TRUE]

\* the environment makes one more operation fail
Injected == faults < MaxFaults /\ faults' = faults + 1
NoFault == faults' = faults

writeBufferToFile_KeepBuffer(f) ==
    /\ ~files[f].closed
    /\ files' = WriteBytes(files, f, buffer, Len(buffer))
    /\ currentSize' = currentSize + Len(buffer)
    /\ buffer' = buffer
    /\ writeFailed' = writeFailed
    /\ NoFault

\* writeBufferToFile, the write succeeds
writeBufferToFile(f) ==
    /\ ~files[f].closed
    /\ files' = WriteBytes(files, f, buffer, Len(buffer))
    /\ currentSize' = currentSize + Len(buffer)
    /\ buffer' = <<>>
    /\ writeFailed' = writeFailed
    /\ NoFault

\* writeBufferToFile, the write returns an error after n bytes (none on a
\* closed file): the function returns before it counts or clears anything
writeBufferToFileErr(f) ==
    /\ \/ /\ files[f].closed
          /\ files' = files
          /\ NoFault
       \/ /\ ~files[f].closed
          /\ Injected
          /\ \E n \in 0..(Len(buffer) - 1) : files' = WriteBytes(files, f, buffer, n)
    /\ writeFailed' = TRUE
    /\ UNCHANGED <<currentSize, buffer>>

\* ---------------------------------------------------------- capture loop
MysqlIncrementalBackup_Truncate(s) ==
    /\ alive
    /\ pc[s] = "start"
    /\ startPos' = [startPos EXCEPT ![s] = getLastBinlogPosition(metadata)]
    /\ \/ pc' = [pc EXCEPT ![s] = "streamData"] /\ NoFault
       \/ pc' = [pc EXCEPT ![s] = "syncFailed"] /\ Injected
    /\ metadata' = <<>>
    /\ UNCHANGED <<callVars, keyVars, schedVars, ctxDone, ev, fileArg, firstFile,
                   writerVars, uploadVars, alive, histVars>>

\* MysqlIncrementalBackup up to the call of streamData: reads the metadata
\* file and hands the position to syncer.StartSync, which may fail
MysqlIncrementalBackup(s) ==
    /\ alive
    /\ pc[s] = "start"
    /\ startPos' = [startPos EXCEPT ![s] = getLastBinlogPosition(metadata)]
    /\ \/ pc' = [pc EXCEPT ![s] = "streamData"] /\ NoFault
       \/ pc' = [pc EXCEPT ![s] = "syncFailed"] /\ Injected
    /\ UNCHANGED <<callVars, keyVars, schedVars, metadata, ctxDone, ev, fileArg, firstFile,
                   writerVars, uploadVars, alive, histVars>>

\* fileIndex++ in openNewFile is an unsynchronised read and write of the
\* package variable: while another loop is about to run openNewFile as well,
\* one of the two increments can be lost
fileIndexAfter(s) ==
    IF \E r \in Sessions \ {s} : pc[r] \in {"streamData", "rotateOpen"}
    THEN {fileIndex, fileIndex + 1}
    ELSE {fileIndex + 1}

\* streamData before the loop: opens the first file of the session
StreamDataOpen(s) ==
    /\ alive
    /\ pc[s] = "streamData"
    /\ fileIndex' \in fileIndexAfter(s)
    /\ \/ /\ files' = Append(files, NewFile)
          /\ currentFile' = Len(files) + 1
          /\ firstFile' = [firstFile EXCEPT ![s] = Len(files) + 1]
          /\ pc' = [pc EXCEPT ![s] = "select"]
          /\ alive' = alive
          /\ NoFault
       \/ /\ currentFile' = NoFile
          /\ alive' = FALSE
          /\ Injected
          /\ UNCHANGED <<files, firstFile, pc>>
    /\ UNCHANGED <<callVars, keyVars, schedVars, metadata, ctxDone, ev, fileArg, startPos,
                   buffer, currentSize, currentBinlog, uploadVars, histVars>>

Select_IgnoreDone(s) ==
    /\ alive
    /\ pc[s] = "select"
    /\ pc' = [pc EXCEPT ![s] = "GetEvent"]
    /\ NoFault
    /\ UNCHANGED <<callVars, keyVars, schedVars, metadata, ctxDone, ev, fileArg, startPos, firstFile,
                   writerVars, uploadVars, alive, histVars>>

\* the select at the top of the loop; on cancellation the deferred Close runs
Select(s) ==
    /\ alive
    /\ pc[s] = "select"
    /\ IF ctxDone[s]
       THEN /\ pc' = [pc EXCEPT ![s] = "cancelled"]
            /\ files' = CloseFile(files, firstFile[s])
       ELSE /\ pc' = [pc EXCEPT ![s] = "GetEvent"]
            /\ files' = files
    /\ NoFault
    /\ UNCHANGED <<callVars, keyVars, schedVars, metadata, ctxDone, ev, fileArg, startPos, firstFile,
                   buffer, currentSize, fileIndex, currentFile, currentBinlog,
                   uploadVars, alive, histVars>>

\* streamer.GetEvent returns an event
GetEventOk(s) ==
    /\ alive
    /\ pc[s] = "GetEvent"
    /\ evCount < MaxEvents
    /\ \E e \in DataEvents(evCount + 1) \cup RotateEvents : ev' = [ev EXCEPT ![s] = e]
    /\ evCount' = evCount + 1
    /\ pc' = [pc EXCEPT ![s] = "processEvent"]
    /\ NoFault
    /\ UNCHANGED <<callVars, keyVars, schedVars, metadata, ctxDone, fileArg, startPos, firstFile,
                   writerVars, uploadVars, alive, delivered, writeFailed, applied, handed>>

GetEventErr_Return(s) ==
    /\ alive
    /\ pc[s] = "GetEvent"
    /\ IF ctxDone[s] THEN NoFault ELSE Injected
    /\ pc' = [pc EXCEPT ![s] = "cancelled"]
    /\ UNCHANGED <<callVars, keyVars, schedVars, metadata, ctxDone, ev, fileArg, startPos, firstFile,
                   writerVars, uploadVars, alive, histVars>>

\* streamer.GetEvent returns an error (a transient one or ctx.Err())
GetEventErr(s) ==
    /\ alive
    /\ pc[s] = "GetEvent"
    /\ IF ctxDone[s] THEN NoFault ELSE Injected
    /\ pc' = [pc EXCEPT ![s] = "select"]
    /\ UNCHANGED <<callVars, keyVars, schedVars, metadata, ctxDone, ev, fileArg, startPos, firstFile,
                   writerVars, uploadVars, alive, histVars>>

ProcessRotate_SkipEmpty(s) ==
    /\ alive
    /\ pc[s] = "processEvent"
    /\ ev[s].kind = "ROTATE"
    /\ fileArg' = [fileArg EXCEPT ![s] = currentFile]
    /\ applied' = [applied EXCEPT ![s] = IF ctxDone[s] THEN @ + 1 ELSE @]
    /\ IF buffer # <<>>
       THEN writeBufferToFile(currentFile) \/ writeBufferToFileErr(currentFile)
       ELSE UNCHANGED <<files, currentSize, buffer, writeFailed, faults>>
    /\ IF currentSize' = 0
       THEN /\ pc' = [pc EXCEPT ![s] = "select"]
            /\ ev' = [ev EXCEPT ![s] = NoEvent]
            /\ currentBinlog' = ev[s].next
       ELSE /\ pc' = [pc EXCEPT ![s] = "rotateFile"]
            /\ UNCHANGED <<ev, currentBinlog>>
    /\ UNCHANGED <<callVars, keyVars, schedVars, metadata, ctxDone, startPos, firstFile,
                   fileIndex, currentFile, uploadVars, alive, delivered, evCount, handed>>

\* processEvent on a RotateEvent, up to the call of rotateFile
ProcessRotate(s) ==
    /\ alive
    /\ pc[s] = "processEvent"
    /\ ev[s].kind = "ROTATE"
    /\ fileArg' = [fileArg EXCEPT ![s] = currentFile]
    /\ applied' = [applied EXCEPT ![s] = IF ctxDone[s] THEN @ + 1 ELSE @]
    /\ IF buffer # <<>>
       THEN writeBufferToFile(currentFile) \/ writeBufferToFileErr(currentFile)
       ELSE UNCHANGED <<files, currentSize, buffer, writeFailed, faults>>
    /\ pc' = [pc EXCEPT ![s] = "rotateFile"]
    /\ UNCHANGED <<callVars, keyVars, schedVars, metadata, ctxDone, ev, startPos, firstFile,
                   fileIndex, currentFile, currentBinlog, uploadVars, alive,
                   delivered, evCount, handed>>

ProcessData_DeltaOnly(s) ==
    /\ alive
    /\ pc[s] = "processEvent"
    /\ ev[s].kind = "DATA"
    /\ fileArg' = [fileArg EXCEPT ![s] = currentFile]
    /\ applied' = [applied EXCEPT ![s] = IF ctxDone[s] THEN @ + 1 ELSE @]
    /\ buffer' = buffer \o ev[s].raw
    /\ delivered' = delivered \o ev[s].raw
    /\ ev' = [ev EXCEPT ![s].snap = ev[s].raw]
    /\ NoFault
    /\ pc' = [pc EXCEPT ![s] = "StreamBinlogToS3"]
    /\ UNCHANGED <<callVars, keyVars, schedVars, metadata, ctxDone, startPos, firstFile,
                   currentSize, fileIndex, currentFile, currentBinlog, files,
                   uploadVars, alive, writeFailed, evCount, handed>>

\* processEvent on any other event, up to the call of StreamBinlogToS3
ProcessData(s) ==
    /\ alive
    /\ pc[s] = "processEvent"
    /\ ev[s].kind = "DATA"
    /\ fileArg' = [fileArg EXCEPT ![s] = currentFile]
    /\ applied' = [applied EXCEPT ![s] = IF ctxDone[s] THEN @ + 1 ELSE @]
    /\ buffer' = buffer \o ev[s].raw
    /\ delivered' = delivered \o ev[s].raw
    /\ ev' = [ev EXCEPT ![s].snap = buffer']
    /\ NoFault
    /\ pc' = [pc EXCEPT ![s] = "StreamBinlogToS3"]
    /\ UNCHANGED <<callVars, keyVars, schedVars, metadata, ctxDone, startPos, firstFile,
                   currentSize, fileIndex, currentFile, currentBinlog, files,
                   uploadVars, alive, writeFailed, evCount, handed>>

StreamReturn_AbortOnError(s) ==
    /\ alive
    /\ pc[s] = "StreamBinlogToS3"
    /\ \/ weekly' = ev[s].snap /\ NoFault
       \/ weekly' = weekly /\ Injected
    /\ pc' = [pc EXCEPT ![s] = IF faults' = faults THEN "threshold" ELSE "cancelled"]
    /\ UNCHANGED <<callVars, keyVars, schedVars, metadata, ctxDone, ev, fileArg, startPos, firstFile,
                   writerVars, tasks, s3seg, alive, histVars>>

\* StreamBinlogToS3 returns to processEvent, with or without an error
StreamReturn(s) ==
    /\ alive
    /\ pc[s] = "StreamBinlogToS3"
    /\ \/ weekly' = ev[s].snap /\ NoFault
       \/ weekly' = weekly /\ Injected
    /\ pc' = [pc EXCEPT ![s] = "threshold"]
    /\ UNCHANGED <<callVars, keyVars, schedVars, metadata, ctxDone, ev, fileArg, startPos, firstFile,
                   writerVars, tasks, s3seg, alive, histVars>>

\* the threshold flush of processEvent
Threshold(s) ==
    /\ alive
    /\ pc[s] = "threshold"
    /\ IF Len(buffer) >= bufferSize
       THEN writeBufferToFile(fileArg[s]) \/ writeBufferToFileErr(fileArg[s])
       ELSE UNCHANGED <<files, currentSize, buffer, writeFailed, faults>>
    /\ pc' = [pc EXCEPT ![s] = "capCheck"]
    /\ UNCHANGED <<callVars, keyVars, schedVars, metadata, ctxDone, ev, fileArg, startPos, firstFile,
                   fileIndex, currentFile, currentBinlog, uploadVars, alive,
                   delivered, evCount, applied, handed>>

CapCheck_SkipSelect(s) ==
    /\ alive
    /\ pc[s] = "capCheck"
    /\ IF currentSize >= maxFileSize
       THEN /\ pc' = [pc EXCEPT ![s] = "rotateFile"]
            /\ ev' = ev
       ELSE /\ pc' = [pc EXCEPT ![s] = "GetEvent"]
            /\ ev' = [ev EXCEPT ![s] = NoEvent]
    /\ NoFault
    /\ UNCHANGED <<callVars, keyVars, schedVars, metadata, ctxDone, fileArg, startPos, firstFile,
                   writerVars, uploadVars, alive, histVars>>

\* the size-cap check of processEvent
CapCheck(s) ==
    /\ alive
    /\ pc[s] = "capCheck"
    /\ IF currentSize >= maxFileSize
       THEN /\ pc' = [pc EXCEPT ![s] = "rotateFile"]
            /\ ev' = ev
       ELSE /\ pc' = [pc EXCEPT ![s] = "select"]
            /\ ev' = [ev EXCEPT ![s] = NoEvent]
    /\ NoFault
    /\ UNCHANGED <<callVars, keyVars, schedVars, metadata, ctxDone, fileArg, startPos, firstFile,
                   writerVars, uploadVars, alive, histVars>>

\* rotateFile up to the go statement: flushes what is left (the buffer is
\* emptied whether or not the write succeeds), closes the file and spawns
\* the upload goroutine with the name of the global currentFile
RotateFileClose(s) ==
    /\ alive
    /\ pc[s] = "rotateFile"
    /\ LET f == fileArg[s] IN
       IF buffer # <<>>
       THEN /\ buffer' = <<>>
            /\ \/ /\ ~files[f].closed
                  /\ files' = CloseFile(WriteBytes(files, f, buffer, Len(buffer)), f)
                  /\ writeFailed' = writeFailed
                  /\ NoFault
               \/ /\ files[f].closed
                  /\ files' = files
                  /\ writeFailed' = TRUE
                  /\ NoFault
               \/ /\ ~files[f].closed
                  /\ Injected
                  /\ \E n \in 0..(Len(buffer) - 1) :
                        files' = CloseFile(WriteBytes(files, f, buffer, n), f)
                  /\ writeFailed' = TRUE
       ELSE /\ files' = CloseFile(files, f)
            /\ UNCHANGED <<buffer, writeFailed, faults>>
    /\ tasks' = tasks \cup {currentFile}
    /\ handed' = handed \cup {currentFile}
    /\ pc' = [pc EXCEPT ![s] = "rotateOpen"]
    /\ UNCHANGED <<callVars, keyVars, schedVars, metadata, ctxDone, ev, fileArg, startPos, firstFile,
                   currentSize, fileIndex, currentFile, currentBinlog, s3seg, weekly,
                   alive, delivered, evCount, applied>>

\* the rest of rotateFile (openNewFile, currentSize = 0) and the return to the
\* loop; after a RotateEvent processEvent then sets currentBinlog
RotateFileOpen(s) ==
    /\ alive
    /\ pc[s] = "rotateOpen"
    /\ fileIndex' \in fileIndexAfter(s)
    /\ \/ /\ files' = Append(files, NewFile)
          /\ currentFile' = Len(files) + 1
          /\ currentSize' = 0
          /\ currentBinlog' = IF ev[s].kind = "ROTATE" THEN ev[s].next ELSE currentBinlog
          /\ ev' = [ev EXCEPT ![s] = NoEvent]
          /\ pc' = [pc EXCEPT ![s] = "select"]
          /\ alive' = alive
          /\ NoFault
       \/ /\ currentFile' = NoFile
          /\ alive' = FALSE
          /\ Injected
          /\ UNCHANGED <<files, currentSize, currentBinlog, ev, pc>>
    /\ UNCHANGED <<callVars, keyVars, schedVars, metadata, ctxDone, fileArg, startPos, firstFile,
                   buffer, uploadVars, histVars>>

\* the upload goroutine of rotateFile: reads the file the global currentFile
\* names when the goroutine runs and uploads it under the key of fileName
UploadTaskOk(t) ==
    /\ alive
    /\ t \in tasks
    /\ currentFile # NoFile
    /\ s3seg' = (t :> files[currentFile].data) @@ s3seg
    /\ tasks' = tasks \ {t}
    /\ NoFault
    /\ UNCHANGED <<callVars, keyVars, schedVars, metadata, ctxDone, loopVars, writerVars, weekly, alive, histVars>>

\* the upload goroutine fails in os.ReadFile or in UploadBufferToS3
UploadTaskErr(t) ==
    /\ alive
    /\ t \in tasks
    /\ tasks' = tasks \ {t}
    /\ Injected
    /\ UNCHANGED <<callVars, keyVars, schedVars, metadata, ctxDone, loopVars, writerVars, s3seg, weekly,
                   alive, histVars>>

\* ------------------------------------------------------- backup scheduler
\* what SHOW MASTER STATUS returns to saveCurrentBinlogPosition
MasterStatus == { [Name |-> <<"b", "2">>, Pos |-> 12] }

\* stringToLower: a map from the spellings it knows to the lower-case name;
\* a string that is not a key gives the empty string
stringToLowerMap ==
    [Sun |-> "sunday", sun |-> "sunday", Sunday |-> "sunday", sunday |-> "sunday",
     Mon |-> "monday", mon |-> "monday", Monday |-> "monday", monday |-> "monday",
     Tue |-> "tuesday", tue |-> "tuesday", Tuesday |-> "tuesday", tuesday |-> "tuesday",
     Wed |-> "wednesday", wed |-> "wednesday", Wednesday |-> "wednesday",
     wednesday |-> "wednesday",
     Thu |-> "thursday", thu |-> "thursday", Thursday |-> "thursday", thursday |-> "thursday",
     Fri |-> "friday", fri |-> "friday", Friday |-> "friday", friday |-> "friday",
     Sat |-> "saturday", sat |-> "saturday", Saturday |-> "saturday", saturday |-> "saturday"]

stringToLower(s) == IF s \in DOMAIN stringToLowerMap THEN stringToLowerMap[s] ELSE ""

\* the map of parseWeekday, with time.Sunday = 0 .. time.Saturday = 6
weekdays ==
    [sunday |-> 0, monday |-> 1, tuesday |-> 2, wednesday |-> 3, thursday |-> 4,
     friday |-> 5, saturday |-> 6]

parseWeekday(s) ==
    LET lowerWeekday == stringToLower(s)
    IN  IF lowerWeekday \in DOMAIN weekdays
        THEN [wd |-> weekdays[lowerWeekday], err |-> FALSE]
        ELSE [wd |-> 0, err |-> TRUE]

\* the number time.Parse reads for a layout element: two digits, or, where
\* the element is not of fixed width, one digit followed by a non-digit
getnum(s, fixed) ==
    IF Len(s) = 0 \/ ~IsDigit(Head(s))
    THEN [n |-> 0, rest |-> s, err |-> TRUE]
    ELSE IF Len(s) < 2 \/ ~IsDigit(Head(Tail(s)))
         THEN [n |-> DigitVal(Head(s)), rest |-> Tail(s), err |-> fixed]
         ELSE [n |-> 10 * DigitVal(Head(s)) + DigitVal(Head(Tail(s))), rest |-> Drop(s, 2),
               err |-> FALSE]

\* time.Parse("15:04", s): an hour below 24 ("15" is not of fixed width), a
\* colon, a two-digit minute below 60 ("04" is of fixed width), nothing after
ParseHour(s) ==
    LET h == getnum(s, FALSE)
        colon == ~h.err /\ Len(h.rest) > 0 /\ Head(h.rest) = ":"
        m == IF colon THEN getnum(Tail(h.rest), TRUE) ELSE [n |-> 0, rest |-> "", err |-> TRUE]
    IN  IF m.err \/ Len(m.rest) > 0 \/ h.n >= 24 \/ m.n >= 60
        THEN [hh |-> 0, mm |-> 0, err |-> TRUE]
        ELSE [hh |-> h.n, mm |-> m.n, err |-> FALSE]

\* a time of day in ticks: a day has DayLen ticks
TickOfDay(hh, mm) == ((hh * 60 + mm) * DayLen) \div (24 * 60)

\* EnableAllBackupScheduler: returns an error on a weekday or an hour it
\* cannot parse, before anything is spawned; otherwise it spawns
\* scheduleBackup and blocks in select {}
EnableAllBackupScheduler ==
    /\ alive
    /\ schedPc = "enable"
    /\ LET weekdayTime == parseWeekday(cliArgs.weekday)
           hourTime == ParseHour(cliArgs.hour)
       IN  IF weekdayTime.err \/ hourTime.err
           THEN /\ schedPc' = "returned"
                /\ UNCHANGED <<weekday, hour>>
           ELSE /\ schedPc' = "scheduleBackup"
                /\ weekday' = weekdayTime.wd
                /\ hour' = TickOfDay(hourTime.hh, hourTime.mm)
    /\ NoFault
    /\ UNCHANGED <<callVars, keyVars, cliArgs, backupRun, tickerStart, fireAt, master, now, nextBackup,
                   fullErr, incCancel, fires, metadata, ctxDone,
                   loopVars, writerVars, uploadVars, alive, histVars>>

\* scheduleBackup up to the creation of the timer
ScheduleBackup ==
    /\ alive
    /\ schedPc = "scheduleBackup"
    /\ nextBackup' = FirstFire(now, weekday, hour)
    /\ schedPc' = "timer"
    /\ NoFault
    /\ UNCHANGED <<callVars, keyVars, cliArgs, backupRun, tickerStart, fireAt, master, now, weekday, hour, fullErr, incCancel, fires, metadata, ctxDone,
                   loopVars, writerVars, uploadVars, alive, histVars>>

\* 7 * 24 * time.Hour
TickerPeriod == 7 * DayLen

TimerFire_CancelFirst ==
    /\ alive
    /\ schedPc \in {"timer", "ticker"}
    /\ fires < MaxFires
    /\ fires' = fires + 1
    /\ fireAt' = Append(fireAt, IF schedPc = "timer" THEN nextBackup
                                ELSE tickerStart + fires * TickerPeriod)
    /\ fullErr' = FALSE
    /\ schedPc' = "MysqlBackup"
    /\ ctxDone' = IF incCancel # NoSession
                  THEN [ctxDone EXCEPT ![incCancel] = TRUE]
                  ELSE ctxDone
    /\ NoFault
    /\ UNCHANGED <<callVars, keyVars, cliArgs, backupRun, tickerStart, master, now, weekday, hour, nextBackup, incCancel, metadata,
                   loopVars, writerVars, uploadVars, alive, histVars>>

\* timer.C or ticker.C delivers: backup() is called; the timer delivers at
\* nextBackup and the ticker one period after its creation or its last tick
TimerFire ==
    /\ alive
    /\ schedPc \in {"timer", "ticker"}
    /\ fires < MaxFires
    /\ fires' = fires + 1
    /\ fireAt' = Append(fireAt, IF schedPc = "timer" THEN nextBackup
                                ELSE tickerStart + fires * TickerPeriod)
    /\ fullErr' = FALSE
    /\ schedPc' = "MysqlBackup"
    /\ NoFault
    /\ UNCHANGED <<callVars, keyVars, cliArgs, backupRun, tickerStart, master, now, weekday, hour, nextBackup, incCancel, metadata, ctxDone,
                   loopVars, writerVars, uploadVars, alive, histVars>>

FullBackupDump_ReturnOnError ==
    /\ alive
    /\ schedPc = "MysqlBackup"
    /\ \/ /\ schedPc' = "save"
          /\ fullErr' = fullErr
          /\ NoFault
       \/ /\ schedPc' = "ticker"
          /\ fullErr' = TRUE
          /\ Injected
    /\ UNCHANGED <<callVars, keyVars, cliArgs, backupRun, tickerStart, fireAt, master, now, weekday, hour, nextBackup, incCancel, fires, metadata, ctxDone,
                   loopVars, writerVars, uploadVars, alive, histVars>>

\* MysqlBackup(allDBFull): backupAllDatabases succeeds or fails
FullBackupDump ==
    /\ alive
    /\ schedPc = "MysqlBackup"
    /\ \/ /\ schedPc' = "save"
          /\ fullErr' = fullErr
          /\ NoFault
       \/ /\ schedPc' = "cancel"
          /\ fullErr' = TRUE
          /\ Injected
    /\ UNCHANGED <<callVars, keyVars, cliArgs, backupRun, tickerStart, fireAt, master, now, weekday, hour, nextBackup, incCancel, fires, metadata, ctxDone,
                   loopVars, writerVars, uploadVars, alive, histVars>>

\* file.WriteString(rec) on a file opened at offset 0 that holds old
WriteAt0(old, rec) == rec \o Drop(old, Len(rec))

\* saveCurrentBinlogPosition: the query or os.Create fails, nothing is written
SaveSkip ==
    /\ alive
    /\ schedPc = "save"
    /\ schedPc' = "upload"
    /\ Injected
    /\ UNCHANGED <<callVars, keyVars, cliArgs, backupRun, tickerStart, fireAt, master, now, weekday, hour, nextBackup, fullErr, incCancel, fires, metadata,
                   ctxDone, loopVars, writerVars, uploadVars, alive, histVars>>

SaveCreate_KeepContent ==
    /\ alive
    /\ schedPc = "save"
    /\ metadata' = IF metadata = Absent THEN <<>> ELSE metadata
    /\ schedPc' = "saveWrite"
    /\ NoFault
    /\ UNCHANGED <<callVars, keyVars, cliArgs, backupRun, tickerStart, fireAt, master, now, weekday, hour, nextBackup, fullErr, incCancel, fires,
                   ctxDone, loopVars, writerVars, uploadVars, alive, histVars>>

\* saveCurrentBinlogPosition: os.Create truncates the metadata file
SaveCreate ==
    /\ alive
    /\ schedPc = "save"
    /\ metadata' = <<>>
    /\ schedPc' = "saveWrite"
    /\ NoFault
    /\ UNCHANGED <<callVars, keyVars, cliArgs, backupRun, tickerStart, fireAt, master, now, weekday, hour, nextBackup, fullErr, incCancel, fires,
                   ctxDone, loopVars, writerVars, uploadVars, alive, histVars>>

SaveWrite_AfterUpload ==
    /\ alive
    /\ schedPc = "saveWrite"
    /\ NoFault
    /\ schedPc' = "upload"
    /\ UNCHANGED <<callVars, keyVars, cliArgs, backupRun, tickerStart, fireAt, master, now, weekday, hour, nextBackup, fullErr, incCancel, fires,
                   metadata, ctxDone, loopVars, writerVars, uploadVars, alive, histVars>>

\* saveCurrentBinlogPosition: file.WriteString writes the record, or fails
\* after a part of it
SaveWrite ==
    /\ alive
    /\ schedPc = "saveWrite"
    /\ LET rec == FormatRecord(master[fires].Name, master[fires].Pos)
       IN  \/ metadata' = WriteAt0(metadata, rec) /\ NoFault
           \/ Injected /\ \E n \in 0..(Len(rec) - 1) :
                            metadata' = WriteAt0(metadata, SubSeq(rec, 1, n))
    /\ schedPc' = "upload"
    /\ UNCHANGED <<callVars, keyVars, cliArgs, backupRun, tickerStart, fireAt, master, now, weekday, hour, nextBackup, fullErr, incCancel, fires,
                   ctxDone, loopVars, writerVars, uploadVars, alive, histVars>>

FullBackupUpload_StopOnError ==
    /\ alive
    /\ schedPc = "upload"
    /\ \/ fullErr' = fullErr /\ schedPc' = "cancel" /\ NoFault
       \/ fullErr' = TRUE /\ schedPc' = "stopped" /\ Injected
    /\ UNCHANGED <<callVars, keyVars, cliArgs, backupRun, tickerStart, fireAt, master, now, weekday, hour, nextBackup, incCancel, fires, metadata, ctxDone,
                   loopVars, writerVars, uploadVars, alive, histVars>>

\* uploadBackupToS3: fails when the dump cannot be read, otherwise returns nil
FullBackupUpload ==
    /\ alive
    /\ schedPc = "upload"
    /\ \/ fullErr' = fullErr /\ NoFault
       \/ fullErr' = TRUE /\ Injected
    /\ schedPc' = "cancel"
    /\ UNCHANGED <<callVars, keyVars, cliArgs, backupRun, tickerStart, fireAt, master, now, weekday, hour, nextBackup, incCancel, fires, metadata, ctxDone,
                   loopVars, writerVars, uploadVars, alive, histVars>>

CancelPrev_Skip ==
    /\ alive
    /\ schedPc = "cancel"
    /\ ctxDone' = ctxDone
    /\ schedPc' = "start"
    /\ NoFault
    /\ UNCHANGED <<callVars, keyVars, cliArgs, backupRun, tickerStart, fireAt, master, now, weekday, hour, nextBackup, fullErr, incCancel, fires, metadata,
                   loopVars, writerVars, uploadVars, alive, histVars>>

\* backup(): calls the stored cancel func when there is one
CancelPrev ==
    /\ alive
    /\ schedPc = "cancel"
    /\ ctxDone' = IF incCancel # NoSession
                  THEN [ctxDone EXCEPT ![incCancel] = TRUE]
                  ELSE ctxDone
    /\ schedPc' = "start"
    /\ NoFault
    /\ UNCHANGED <<callVars, keyVars, cliArgs, backupRun, tickerStart, fireAt, master, now, weekday, hour, nextBackup, fullErr, incCancel, fires, metadata,
                   loopVars, writerVars, uploadVars, alive, histVars>>

\* backup(): stores the new cancel func and spawns the capture goroutine;
\* when the first backup() has returned, scheduleBackup creates the ticker
StartSession ==
    /\ alive
    /\ schedPc = "start"
    /\ incCancel' = incCancel + 1
    /\ pc' = [pc EXCEPT ![incCancel + 1] = "start"]
    /\ tickerStart' = IF schedPc = "start" /\ fires = 1
                      THEN fireAt[1] + backupRun[1].took
                      ELSE tickerStart
    /\ schedPc' = "ticker"
    /\ NoFault
    /\ UNCHANGED <<callVars, keyVars, cliArgs, backupRun, fireAt, master, now, weekday, hour, nextBackup, fullErr, fires, metadata, ctxDone,
                   ev, fileArg, startPos, firstFile,
                   writerVars, uploadVars, alive, histVars>>

\* ------------------------------------------------------- remote keys
\* strconv / fmt: %d and %02d of a natural number
RECURSIVE Itoa(_)
Itoa(n) == IF n < 10 THEN DigitChars[n + 1] ELSE Itoa(n \div 10) \o DigitChars[(n % 10) + 1]

Pad2(n) == IF n < 10 THEN "0" \o Itoa(n) ELSE Itoa(n)

IsLeap(y) == y % 4 = 0 /\ (y % 100 # 0 \/ y % 400 = 0)
DaysInYear(y) == IF IsLeap(y) THEN 366 ELSE 365
daysIn(m, y) ==
    IF m = 2 THEN (IF IsLeap(y) THEN 29 ELSE 28)
    ELSE IF m \in {4, 6, 9, 11} THEN 30 ELSE 31

RECURSIVE daysBefore(_, _)
daysBefore(m, y) == IF m = 1 THEN 0 ELSE daysBefore(m - 1, y) + daysIn(m - 1, y)

\* t.YearDay() - 1
YDay(t) == daysBefore(t.m, t.y) + t.d - 1

\* days from 0001-01-01, a Monday, to day yd (from 0) of year y
AbsDay(y, yd) == 365 * (y - 1) + (y - 1) \div 4 - (y - 1) \div 100 + (y - 1) \div 400 + yd

\* t.Weekday(): time.Sunday = 0 .. time.Saturday = 6
Weekday(t) == (AbsDay(t.y, YDay(t)) + 1) % 7

\* time.Weekday.String()
WeekdayString(wd) ==
    <<"Sunday", "Monday", "Tuesday", "Wednesday", "Thursday", "Friday", "Saturday">>[wd + 1]

\* t.ISOWeek(): the year and the week of the Thursday of t's week
ISOWeek(t) ==
    LET d0 == 4 - Weekday(t)
        d == IF d0 = 4 THEN -3 ELSE d0
        yd == YDay(t) + d
        year == IF yd < 0 THEN t.y - 1 ELSE IF yd >= DaysInYear(t.y) THEN t.y + 1 ELSE t.y
        yday == IF yd < 0 THEN yd + DaysInYear(t.y - 1)
                ELSE IF yd >= DaysInYear(t.y) THEN yd - DaysInYear(t.y) ELSE yd
    IN  [year |-> year, week |-> yday \div 7 + 1]

\* t.Format("20060102")
FormatDate(t) == Itoa(t.y) \o Pad2(t.m) \o Pad2(t.d)

\* time.Parse("20060102", s): four digits of year, a two-digit month, a
\* two-digit day of that month, nothing after
ParseDate(s) ==
    LET bad == [y |-> 0, m |-> 0, d |-> 0, err |-> TRUE]
    IN  IF Len(s) < 4 \/ \E i \in 1..4 : ~IsDigit(SubSeq(s, i, i))
        THEN bad
        ELSE LET hi == getnum(s, TRUE)
                 lo == getnum(hi.rest, TRUE)
                 mo == getnum(lo.rest, TRUE)
                 da == IF mo.err THEN mo ELSE getnum(mo.rest, TRUE)
                 y == 100 * hi.n + lo.n
             IN  IF da.err \/ Len(da.rest) > 0 \/ mo.n < 1 \/ mo.n > 12
                    \/ da.n < 1 \/ da.n > daysIn(mo.n, y)
                 THEN bad
                 ELSE [y |-> y, m |-> mo.n, d |-> da.n, err |-> FALSE]

\* strings.Contains
Contains(s, substr) ==
    \E i \in 1..(Len(s) - Len(substr) + 1) : SubSeq(s, i, i + Len(substr) - 1) = substr

\* strings.Index(s, "_"), from 1; 0 when there is none
IndexUnderscore(s) ==
    IF \E i \in 1..Len(s) : SubSeq(s, i, i) = "_"
    THEN CHOOSE i \in 1..Len(s) :
             /\ SubSeq(s, i, i) = "_"
             /\ \A j \in 1..(i - 1) : SubSeq(s, j, j) # "_"
    ELSE 0

\* strings.Split(s, "_")
RECURSIVE Split(_)
Split(s) ==
    LET i == IndexUnderscore(s)
    IN  IF i = 0 THEN <<s>> ELSE <<SubSeq(s, 1, i - 1)>> \o Split(Drop(s, i))

\* strings.SplitN(s, "_", 2)
SplitN2(s) ==
    LET i == IndexUnderscore(s)
    IN  IF i = 0 THEN <<s>> ELSE <<SubSeq(s, 1, i - 1), Drop(s, i)>>

\* getS3Key: a name holding "full_backup" is keyed by the date in front of its
\* first underscore; otherwise a name holding "incr_backup" is keyed by its
\* last but one token; any other name is an error
getS3Key(name) ==
    IF Contains(name, "full_backup")
    THEN LET tokens == SplitN2(name)
             t == ParseDate(tokens[1])
         IN  IF t.err
             THEN [key |-> "", err |-> "failed to parse date"]
             ELSE [key |-> Itoa(ISOWeek(t).year) \o "/" \o Pad2(ISOWeek(t).week) \o "/" \o name,
                   err |-> ""]
    ELSE IF Contains(name, "incr_backup")
    THEN LET tokens == Split(name)
             t == IF Len(tokens) < 5 THEN ParseDate("") ELSE ParseDate(tokens[Len(tokens) - 1])
         IN  IF Len(tokens) < 5
             THEN [key |-> "", err |-> "invalid incremental backup file name"]
             ELSE IF t.err
             THEN [key |-> "", err |-> "failed to parse date"]
             ELSE [key |-> Itoa(ISOWeek(t).year) \o "/" \o Pad2(ISOWeek(t).week) \o "/"
                              \o WeekdayString(Weekday(t)) \o "/" \o name,
                   err |-> ""]
    ELSE [key |-> "", err |-> "unknown backup file type"]

\* MysqlBackup has not been called
NoCall == [pc |-> "none"]

\* getS3Key has not been called
NoKey == [key |-> "", err |-> ""]

\* UploadBufferToS3 asks getS3Key for the key of the name it was given
GetS3Key ==
    /\ s3Key = NoKey
    /\ s3Key' = getS3Key(fileName)
    /\ UNCHANGED <<callVars, fileName, streamKey, schedVars, metadata, ctxDone, loopVars, writerVars, uploadVars,
                   alive, histVars, faults>>

\* the dates and times of day at which files are named
Dates ==
    { [y |-> 2024, m |-> 3, d |-> 4], [y |-> 2024, m |-> 2, d |-> 29],
      [y |-> 2024, m |-> 12, d |-> 30], [y |-> 2024, m |-> 12, d |-> 31],
      [y |-> 2021, m |-> 1, d |-> 3], [y |-> 2023, m |-> 1, d |-> 1],
      [y |-> 2026, m |-> 1, d |-> 1], [y |-> 2026, m |-> 11, d |-> 3] }
Clocks == {"000000", "150405"}

\* the log names a server can hand out, and the databases it can hold
LogNames == {"binlog.000001", "mysql-bin.000002", "my_db_bin.000003", "full_backup.000004"}
Scopes == {"all_databases", "mydb", "my_db"}

\* openNewFile: incr_backup_<log>_<index>_<date>_<time>.log (after filepath.Base)
SegmentFileName(log, index, t, clock) ==
    "incr_backup_" \o log \o "_" \o Itoa(index) \o "_" \o FormatDate(t) \o "_" \o clock \o ".log"

\* backupAllDatabases / backupDatabase: <date>_<time>_<scope>_full_backup.sql
FullBackupFileName(t, clock, scope) ==
    FormatDate(t) \o "_" \o clock \o "_" \o scope \o "_full_backup.sql"

SegmentFileNames ==
    { SegmentFileName(log, i, t, c) : log \in LogNames, i \in {0, 12}, t \in Dates, c \in Clocks }
FullBackupFileNames ==
    { FullBackupFileName(t, c, sc) : t \in Dates, c \in Clocks, sc \in Scopes }
        \cup { FormatDate(t) \o "_mydb_full_backup.sql" : t \in Dates }

getStreamS3Key_CalendarYear(name) ==
    IF Contains(name, "incr_backup")
    THEN LET tokens == Split(name)
             t == IF Len(tokens) < 5 THEN ParseDate("") ELSE ParseDate(tokens[Len(tokens) - 1])
         IN  IF Len(tokens) < 5
             THEN [key |-> "", err |-> "invalid incremental backup file name"]
             ELSE IF t.err
             THEN [key |-> "", err |-> "failed to parse date"]
             ELSE [key |-> Itoa(t.y) \o "/" \o Pad2(ISOWeek(t).week) \o "/"
                              \o "weekly-binlog.log",
                   err |-> ""]
    ELSE [key |-> "", err |-> "unknown backup file type"]

\* getStreamS3Key: a path holding "incr_backup" is keyed by the ISO year and
\* week of its last but one token; any other path is an error
getStreamS3Key(name) ==
    IF Contains(name, "incr_backup")
    THEN LET tokens == Split(name)
             t == IF Len(tokens) < 5 THEN ParseDate("") ELSE ParseDate(tokens[Len(tokens) - 1])
         IN  IF Len(tokens) < 5
             THEN [key |-> "", err |-> "invalid incremental backup file name"]
             ELSE IF t.err
             THEN [key |-> "", err |-> "failed to parse date"]
             ELSE [key |-> Itoa(ISOWeek(t).year) \o "/" \o Pad2(ISOWeek(t).week) \o "/"
                              \o "weekly-binlog.log",
                   err |-> ""]
    ELSE [key |-> "", err |-> "unknown backup file type"]

\* the backup directories the command line can name
BackupDirs == {"/backup", "/var/my_backups", "backups/full_backup"}

\* StreamBinlogToS3 asks getStreamS3Key for the key of currentFile.Name(), the
\* path openNewFile built: the backup directory, a slash and the file name
GetStreamS3Key ==
    /\ streamKey = NoKey
    /\ fileName \in SegmentFileNames
    /\ \E dirPath \in BackupDirs : streamKey' = getStreamS3Key(dirPath \o "/" \o fileName)
    /\ UNCHANGED <<callVars, fileName, s3Key, schedVars, metadata, ctxDone, loopVars, writerVars,
                   uploadVars, alive, histVars, faults>>

\* ------------------------------------------------------- MysqlBackup
\* how the backup of one artifact ends: the database does not exist,
\* mysqldump fails, os.ReadFile of the dump fails, UploadBufferToS3 fails, or
\* all of it succeeds
Outcomes == {"ok", "missing", "dump", "read", "s3"}

\* uploadBackupToS3: returns the error of os.ReadFile; the result of
\* UploadBufferToS3 is dropped
uploadBackupToS3(o) == IF o = "read" THEN "error reading backup file" ELSE ""

\* singleDbBackup: the error it returns for each outcome, "" for nil
singleDbBackup(o) ==
    IF o = "missing" THEN "database does not exist"
    ELSE IF o = "dump" THEN "exit status"
    ELSE IF uploadBackupToS3(o) # "" THEN "failed to upload backup to S3"
    ELSE ""

\* what has failed in the call so far
Failed(call, o) ==
    [call EXCEPT !.missing = @ \/ o = "missing",
                 !.dumpFailed = @ \/ o = "dump",
                 !.uploadFailed = @ \/ o \in {"read", "s3"}]

\* MysqlBackup with allDBFull: the dump, the position record, the upload
MysqlBackupAll ==
    /\ mb.pc = "call"
    /\ mb.allDBFull
    /\ \E o \in Outcomes \ {"missing"} :
           mb' = [Failed(mb, o) EXCEPT
                      !.pc = "returned",
                      !.err = IF o = "dump" THEN "failed to backup all databases"
                              ELSE IF uploadBackupToS3(o) # ""
                                   THEN "failed to upload backup to S3"
                                   ELSE ""]
    /\ UNCHANGED <<keyVars, schedVars, metadata, ctxDone, loopVars, writerVars, uploadVars,
                   alive, histVars, faults>>

\* MysqlBackup with a list of databases, one turn of the loop: the error of
\* singleDbBackup is logged
MysqlBackupEach ==
    /\ mb.pc = "call"
    /\ ~mb.allDBFull
    /\ mb.databases # <<>>
    /\ mb.i <= Len(mb.databases)
    /\ \E o \in Outcomes : mb' = [Failed(mb, o) EXCEPT !.i = @ + 1]
    /\ UNCHANGED <<keyVars, schedVars, metadata, ctxDone, loopVars, writerVars, uploadVars,
                   alive, histVars, faults>>

\* MysqlBackup with a list of databases, after the loop
MysqlBackupEachDone ==
    /\ mb.pc = "call"
    /\ ~mb.allDBFull
    /\ mb.databases # <<>>
    /\ mb.i > Len(mb.databases)
    /\ mb' = [mb EXCEPT !.pc = "returned", !.err = ""]
    /\ UNCHANGED <<keyVars, schedVars, metadata, ctxDone, loopVars, writerVars, uploadVars,
                   alive, histVars, faults>>

\* MysqlBackup with one database: the error of singleDbBackup is logged;
\* with no database at all it returns an error
MysqlBackupSingle ==
    /\ mb.pc = "call"
    /\ ~mb.allDBFull
    /\ mb.databases = <<>>
    /\ IF mb.database # ""
       THEN \E o \in Outcomes : mb' = [Failed(mb, o) EXCEPT !.pc = "returned", !.err = ""]
       ELSE mb' = [mb EXCEPT !.pc = "returned", !.err = "no database specified for backup"]
    /\ UNCHANGED <<keyVars, schedVars, metadata, ctxDone, loopVars, writerVars, uploadVars,
                   alive, histVars, faults>>

\* ------------------------------------------------------- specifications
\* a backup() that takes one tick and a server that commits nothing during
\* the dump; the scheduler arguments as parsed; no key asked for
InitInputs ==
    /\ backupRun = [k \in 1..MaxFires |-> [took |-> 1, snapPos |-> master[k].Pos]]
    /\ tickerStart = -1
    /\ fireAt = <<>>
    /\ cliArgs = [weekday |-> "Mon", hour |-> "06:00"]
    /\ fileName = ""
    /\ s3Key = NoKey
    /\ streamKey = NoKey
    /\ mb = NoCall

InitWriter ==
    /\ buffer = <<>>
    /\ currentSize = 0
    /\ fileIndex = 0
    /\ currentFile = NoFile
    /\ currentBinlog = <<"b", "1">>
    /\ files = <<>>
    /\ tasks = {}
    /\ s3seg = <<>>
    /\ weekly = NoObj
    /\ alive = TRUE
    /\ delivered = <<>>
    /\ writeFailed = FALSE
    /\ faults = 0
    /\ evCount = 0
    /\ applied = [s \in Sessions |-> 0]
    /\ handed = {}

InitLoops ==
    /\ ctxDone = [s \in Sessions |-> FALSE]
    /\ ev = [s \in Sessions |-> NoEvent]
    /\ fileArg = [s \in Sessions |-> NoFile]
    /\ firstFile = [s \in Sessions |-> NoFile]
    /\ startPos = [s \in Sessions |-> [Name |-> <<>>, Pos |-> 0]]

InitNoSched ==
    /\ now = [wd |-> 1, tod |-> 0, exact |-> FALSE]
    /\ weekday = 1
    /\ hour = 1
    /\ nextBackup = -1
    /\ fullErr = FALSE
    /\ incCancel = NoSession
    /\ master \in [1..MaxFires -> MasterStatus]
    /\ InitInputs
    /\ fires = 0

\* enable-all-backup-scheduler: EnableAllBackupScheduler has parsed its
\* arguments and spawned scheduleBackup
Init ==
    /\ InitNoSched
    /\ schedPc = "scheduleBackup"
    /\ metadata = Absent
    /\ pc = [s \in Sessions |-> "idle"]
    /\ InitLoops
    /\ InitWriter

LoopStep(s) ==
    \/ MysqlIncrementalBackup(s)
    \/ StreamDataOpen(s)
    \/ Select(s)
    \/ GetEventOk(s)
    \/ GetEventErr(s)
    \/ ProcessRotate(s)
    \/ ProcessData(s)
    \/ StreamReturn(s)
    \/ Threshold(s)
    \/ CapCheck(s)
    \/ RotateFileClose(s)
    \/ RotateFileOpen(s)

UploadStep == \E t \in tasks : UploadTaskOk(t) \/ UploadTaskErr(t)

SchedStep ==
    \/ ScheduleBackup
    \/ TimerFire
    \/ FullBackupDump
    \/ SaveSkip
    \/ SaveCreate
    \/ SaveWrite
    \/ FullBackupUpload
    \/ CancelPrev
    \/ StartSession

Next == SchedStep \/ UploadStep \/ \E s \in Sessions : LoopStep(s)

Spec == Init /\ [][Next]_vars

\* incremental-backup: MysqlIncrementalBackup is called once, with
\* context.Background(), from the state the package variables start in
InitIncr ==
    /\ InitNoSched
    /\ schedPc = "none"
    /\ metadata = FormatRecord(<<"b", "2">>, 4)
    /\ pc = [s \in Sessions |-> IF s = 1 THEN "start" ELSE "idle"]
    /\ InitLoops
    /\ InitWriter

NextIncr == UploadStep \/ LoopStep(1)

SpecIncr == InitIncr /\ [][NextIncr]_vars

\* the first fire time, for every clock reading and every ScheduleSpec
InitSched ==
    /\ now \in [wd : Weekdays, tod : TimesOfDay, exact : BOOLEAN]
    /\ weekday \in Weekdays
    /\ hour \in TimesOfDay
    /\ nextBackup = -1
    /\ fullErr = FALSE
    /\ incCancel = NoSession
    /\ master \in [1..MaxFires -> MasterStatus]
    /\ InitInputs
    /\ fires = 0
    /\ schedPc = "scheduleBackup"
    /\ metadata = Absent
    /\ pc = [s \in Sessions |-> "idle"]
    /\ InitLoops
    /\ InitWriter

NextSched == ScheduleBackup

SpecSched == InitSched /\ [][NextSched]_vars

\* the start position, for every content of the metadata file
Malformed == { <<>>, <<"\n">>, <<" ">>, <<"b", "1">>, <<"b", "1", "\n">>,
               <<"b", "1", " ", "x", "\n">>, <<" ", "b", "2", " ", " ", "7">> }

InitCursor ==
    /\ InitNoSched
    /\ schedPc = "none"
    /\ metadata \in {Absent} \cup Malformed
                      \cup { FormatRecord(nm, p) : nm \in Names, p \in Positions }
    /\ pc = [s \in Sessions |-> IF s = 1 THEN "start" ELSE "idle"]
    /\ InitLoops
    /\ InitWriter

NextCursor == MysqlIncrementalBackup(1)

SpecCursor == InitCursor /\ [][NextCursor]_vars

\* the scheduler's fires and the sessions they start, for every pair of
\* positions the server may report
SavedPositions == { [Name |-> nm, Pos |-> p] : nm \in Names, p \in {7, MaxPos} }

InitFires ==
    /\ now = [wd |-> 1, tod |-> 0, exact |-> FALSE]
    /\ weekday = 1
    /\ hour = 1
    /\ nextBackup = -1
    /\ fullErr = FALSE
    /\ incCancel = NoSession
    /\ master \in [1..MaxFires -> SavedPositions]
    /\ InitInputs
    /\ fires = 0
    /\ schedPc = "scheduleBackup"
    /\ metadata = Absent
    /\ pc = [s \in Sessions |-> "idle"]
    /\ InitLoops
    /\ InitWriter

NextFires == SchedStep \/ \E s \in Sessions : MysqlIncrementalBackup(s)

SpecFires == InitFires /\ [][NextFires]_vars

SpecFiresFair == SpecFires /\ WF_vars(SchedStep)

\* the scheduler's fires, for every duration of backup() and with or without
\* commits on the server while mysqldump runs
BackupRuns == [took : {1, 2}, snapPos : {4, 12}]

InitTicker ==
    /\ now = [wd |-> 1, tod |-> 0, exact |-> FALSE]
    /\ weekday = 1
    /\ hour = 1
    /\ nextBackup = -1
    /\ fullErr = FALSE
    /\ incCancel = NoSession
    /\ master \in [1..MaxFires -> MasterStatus]
    /\ backupRun \in [1..MaxFires -> BackupRuns]
    /\ tickerStart = -1
    /\ fireAt = <<>>
    /\ cliArgs = [weekday |-> "Mon", hour |-> "06:00"]
    /\ fileName = ""
    /\ s3Key = NoKey
    /\ streamKey = NoKey
    /\ mb = NoCall
    /\ fires = 0
    /\ schedPc = "scheduleBackup"
    /\ metadata = Absent
    /\ pc = [s \in Sessions |-> "idle"]
    /\ InitLoops
    /\ InitWriter

NextTicker == SchedStep

SpecTicker == InitTicker /\ [][NextTicker]_vars

\* enable-all-backup-scheduler with any weekday and hour arguments
WeekdayArgs == {"Mon", "monday", "Sunday", "sat", "MONDAY", "Mo", ""}
HourArgs ==
    {"06:00", "00:00", "18:30", "23:59", "9:30", "24:00", "12:60", "06:0", "0600",
     "06:00:00", "noon", ""}

InitEnable ==
    /\ now = [wd |-> 1, tod |-> 0, exact |-> FALSE]
    /\ weekday = 0
    /\ hour = 0
    /\ nextBackup = -1
    /\ fullErr = FALSE
    /\ incCancel = NoSession
    /\ master \in [1..MaxFires -> MasterStatus]
    /\ backupRun = [k \in 1..MaxFires |-> [took |-> 1, snapPos |-> master[k].Pos]]
    /\ tickerStart = -1
    /\ fireAt = <<>>
    /\ cliArgs \in [weekday : WeekdayArgs, hour : HourArgs]
    /\ fileName = ""
    /\ s3Key = NoKey
    /\ streamKey = NoKey
    /\ mb = NoCall
    /\ fires = 0
    /\ schedPc = "enable"
    /\ metadata = Absent
    /\ pc = [s \in Sessions |-> "idle"]
    /\ InitLoops
    /\ InitWriter

NextEnable == EnableAllBackupScheduler \/ SchedStep \/ \E s \in Sessions : MysqlIncrementalBackup(s)

SpecEnable == InitEnable /\ [][NextEnable]_vars

\* UploadBufferToS3 is given any name the program builds
InitKey ==
    /\ now = [wd |-> 1, tod |-> 0, exact |-> FALSE]
    /\ weekday = 1
    /\ hour = 1
    /\ nextBackup = -1
    /\ fullErr = FALSE
    /\ incCancel = NoSession
    /\ master \in [1..MaxFires -> MasterStatus]
    /\ backupRun = [k \in 1..MaxFires |-> [took |-> 1, snapPos |-> master[k].Pos]]
    /\ tickerStart = -1
    /\ fireAt = <<>>
    /\ cliArgs = [weekday |-> "Mon", hour |-> "06:00"]
    /\ fileName \in SegmentFileNames \cup FullBackupFileNames
    /\ s3Key = NoKey
    /\ streamKey = NoKey
    /\ mb = NoCall
    /\ fires = 0
    /\ schedPc = "none"
    /\ metadata = Absent
    /\ pc = [s \in Sessions |-> "idle"]
    /\ InitLoops
    /\ InitWriter

NextKey == GetS3Key

SpecKey == InitKey /\ [][NextKey]_vars

\* both key functions on every name the program builds
NextStream == GetS3Key \/ GetStreamS3Key

SpecStream == InitKey /\ [][NextStream]_vars

\* backup: MysqlBackup as backupCli and backup() call it (a nil list is the
\* empty sequence)
DatabaseNames == {"mydb", "my_db", "shop"}
DatabaseLists ==
    { <<d>> : d \in DatabaseNames } \cup { <<d, e>> : d \in DatabaseNames, e \in DatabaseNames }
MysqlBackupCalls ==
    { [allDBFull |-> TRUE, database |-> "", databases |-> <<>>] }
        \cup { [allDBFull |-> FALSE, database |-> d, databases |-> <<>>] : d \in DatabaseNames }
        \cup { [allDBFull |-> FALSE, database |-> "", databases |-> l] : l \in DatabaseLists }

InitBackup ==
    /\ now = [wd |-> 1, tod |-> 0, exact |-> FALSE]
    /\ weekday = 1
    /\ hour = 1
    /\ nextBackup = -1
    /\ fullErr = FALSE
    /\ incCancel = NoSession
    /\ master \in [1..MaxFires -> MasterStatus]
    /\ backupRun = [k \in 1..MaxFires |-> [took |-> 1, snapPos |-> master[k].Pos]]
    /\ tickerStart = -1
    /\ fireAt = <<>>
    /\ cliArgs = [weekday |-> "Mon", hour |-> "06:00"]
    /\ fileName = ""
    /\ s3Key = NoKey
    /\ streamKey = NoKey
    /\ \E c \in MysqlBackupCalls :
           mb = [pc |-> "call", allDBFull |-> c.allDBFull, database |-> c.database,
                 databases |-> c.databases, i |-> 1, err |-> "",
                 missing |-> FALSE, dumpFailed |-> FALSE, uploadFailed |-> FALSE]
    /\ fires = 0
    /\ schedPc = "none"
    /\ metadata = Absent
    /\ pc = [s \in Sessions |-> "idle"]
    /\ InitLoops
    /\ InitWriter

NextBackup == MysqlBackupAll \/ MysqlBackupEach \/ MysqlBackupEachDone \/ MysqlBackupSingle

SpecBackup == InitBackup /\ [][NextBackup]_vars

\* the second fire reaches the cancel of session 1 at any point of its run:
\* the state after fire 1 and the full backup of fire 2, session 1 spawned
InitCancel ==
    /\ now = [wd |-> 1, tod |-> 0, exact |-> FALSE]
    /\ weekday = 1
    /\ hour = 1
    /\ nextBackup = 1
    /\ fullErr = FALSE
    /\ incCancel = 1
    /\ master \in [1..MaxFires -> MasterStatus]
    /\ backupRun = [k \in 1..MaxFires |-> [took |-> 1, snapPos |-> master[k].Pos]]
    /\ tickerStart = 2
    /\ fireAt = <<1, 2 + TickerPeriod>>
    /\ cliArgs = [weekday |-> "Mon", hour |-> "06:00"]
    /\ fileName = ""
    /\ s3Key = NoKey
    /\ streamKey = NoKey
    /\ mb = NoCall
    /\ fires = 2
    /\ schedPc = "cancel"
    /\ metadata = FormatRecord(master[2].Name, master[2].Pos)
    /\ pc = [s \in Sessions |-> IF s = 1 THEN "start" ELSE "idle"]
    /\ InitLoops
    /\ InitWriter

NextCancel == CancelPrev \/ UploadStep \/ LoopStep(1)

SpecCancel == InitCancel /\ [][NextCancel]_vars

\* the goroutine of the loop is scheduled as long as it can take a step
SpecCancelFair == SpecCancel /\ WF_vars(LoopStep(1))

\* ------------------------------------------------------------- properties
RECURSIVE SegmentBytes(_)
\* the contents of the segment files fs, concatenated in sequence-number order
SegmentBytes(fs) ==
    IF fs = <<>> THEN <<>>
    ELSE SegmentBytes(SubSeq(fs, 1, Len(fs) - 1)) \o fs[Len(fs)].data

\* the loop is between two accesses of processEvent to the segment writer
InProcessEvent(s) ==
    pc[s] \in {"StreamBinlogToS3", "threshold", "capCheck", "rotateFile", "rotateOpen"}

\* C1: in a session that runs alone from the start of the process and has
\* seen no failed file write, the segment files in sequence order followed by
\* the buffer are exactly the DATA payloads in delivery order; with an empty
\* buffer the segment files alone are.
C1_OrderedLossless ==
    ~writeFailed =>
        /\ SegmentBytes(files) \o buffer = delivered
        /\ (buffer = <<>> => SegmentBytes(files) = delivered)

C1_Witness ==
    /\ ~writeFailed
    /\ Len(files) >= 2
    /\ files[1].data # <<>>
    /\ files[1].closed
    /\ buffer # <<>>
    /\ SegmentBytes(files) \o buffer = delivered

\* C2: a session is started only after its predecessor was cancelled, and no
\* two capture loops are inside processEvent at the same time.
C2_SessionExclusive ==
    /\ \A s \in Sessions : \A r \in Sessions :
          (r < s /\ pc[s] # "idle") => ctxDone[r]
    /\ Cardinality({ s \in Sessions : InProcessEvent(s) }) <= 1

\* C3: the first fire time is the earliest instant strictly after now that
\* falls on the configured weekday at the configured time of day.
C3_FirstFireIsNextOccurrence ==
    schedPc = "timer" => nextBackup = NextOccurrence(now, weekday, hour)

\* C4: when today is the configured weekday, the first fire time is 7 days
\* after today's occurrence if the time of day has passed, and today at that
\* time if it is still ahead.
C4_SameWeekday ==
    (schedPc = "timer" /\ now.wd = weekday) =>
        /\ (After(now, hour) => nextBackup = hour + 7 * DayLen)
        /\ (now.tod < hour => nextBackup = hour)

C4_Witness ==
    /\ schedPc = "timer"
    /\ now.wd = weekday
    /\ After(now, hour)
    /\ nextBackup = hour + 7 * DayLen

\* C5: the object an upload task stores under the key of a rotated segment
\* is the final content of that closed segment.
C5_UploadIsRotatedSegment ==
    \A k \in DOMAIN s3seg : files[k].closed /\ s3seg[k] = files[k].data

\* C6: the capture loop is never held inside an upload call: it does not
\* wait for StreamBinlogToS3 to return before it goes on.
C6_LoopNeverWaitsOnUpload ==
    \A s \in Sessions : pc[s] # "StreamBinlogToS3"

\* C7: a loop that consumes a ROTATE event always goes through rotateFile,
\* whatever the segment holds: the segment it was writing is closed and the
\* new current segment has a higher sequence number.
C7_RotateAlwaysRotates ==
    [][\A s \in Sessions :
        ev[s].kind = "ROTATE" =>
            /\ (pc[s] = "processEvent" /\ pc'[s] # pc[s]) => pc'[s] = "rotateFile"
            /\ (pc[s] = "rotateFile" /\ pc'[s] # pc[s]) =>
                  (pc'[s] = "rotateOpen" /\ files'[fileArg[s]].closed)
            /\ (pc[s] = "rotateOpen" /\ pc'[s] # pc[s]) =>
                  /\ pc'[s] = "select"
                  /\ currentFile' # fileArg[s]
                  /\ ~files'[currentFile'].closed
                  /\ files'[currentFile'].index > files'[fileArg[s]].index
            /\ ev'[s] # ev[s] => pc[s] = "rotateOpen"]_vars

C7_Witness ==
    /\ Len(files) >= 3
    /\ files[1].data = <<>> /\ files[1].closed
    /\ files[2].data # <<>> /\ Len(files[2].data) < maxFileSize /\ files[2].closed
    /\ currentFile = 3
    /\ \A s \in Sessions : ev[s] = NoEvent

\* C8: a segment file holds fewer than maxFileSize bytes whenever bytes are
\* written to it, and after every processed event the current segment file
\* holds fewer than maxFileSize bytes.
C8_CapBound ==
    [][/\ \A f \in 1..Len(files) :
            files'[f].data # files[f].data => Len(files[f].data) < maxFileSize
       /\ \A s \in Sessions :
            (InProcessEvent(s) /\ pc'[s] = "select") =>
                Len(files'[currentFile'].data) < maxFileSize]_vars

\* C9: a segment file is created only at session start, for a ROTATE event,
\* or when the bytes flushed to the current segment have reached maxFileSize;
\* a DATA event that leaves them below maxFileSize does not rotate.
C9_RotationTriggers ==
    [][/\ Len(files') > Len(files) =>
            \E s \in Sessions :
                \/ pc[s] = "streamData"
                \/ /\ pc[s] = "rotateOpen"
                   /\ \/ ev[s].kind = "ROTATE"
                      \/ Len(files[fileArg[s]].data) >= maxFileSize
       /\ \A s \in Sessions :
            (pc[s] = "capCheck" /\ pc'[s] = "rotateFile") =>
                Len(files[fileArg[s]].data) >= maxFileSize]_vars

\* C10: the position a starting capture loop passes to StartSync is the
\* (name, offset) of the record the metadata file holds at that moment.
C10_StartAtStoredPosition ==
    \A nm \in Names : \A p \in Positions :
        (pc[1] \in {"streamData", "syncFailed"} /\ metadata = FormatRecord(nm, p))
            => startPos[1] = [Name |-> nm, Pos |-> p]

C10_Witness ==
    /\ pc[1] = "streamData"
    /\ metadata = FormatRecord(<<"b", ".", "3">>, 21)
    /\ startPos[1] = [Name |-> <<"b", ".", "3">>, Pos |-> 21]

\* the position the spec documents for an absent or malformed record: the
\* first log (the empty name asks the server for its first log), offset 0
InitialPosition == [Name |-> <<>>, Pos |-> 0]

\* C11: when the metadata file is absent, empty, holds one field only or
\* holds a non-numeric offset, the starting loop gets the initial position.
C11_DefaultWhenMalformed ==
    (/\ pc[1] \in {"streamData", "syncFailed"}
     /\ metadata \in {Absent, <<>>, <<"\n">>, <<"b", "1">>, <<"b", "1", "\n">>,
                      <<"b", "1", " ", "x", "\n">>})
        => startPos[1] = InitialPosition

\* the fire whose save was the last one to run to its end
LastSaved == IF schedPc \in {"upload", "cancel", "start", "ticker"} THEN fires ELSE fires - 1

\* C12: whenever the metadata file can be read, it is absent (nothing saved
\* yet) or holds one complete record of a saved position.
C12_AtomicRecord ==
    \/ metadata = Absent
    \/ \E k \in 1..MaxFires : metadata = FormatRecord(master[k].Name, master[k].Pos)

\* C13: after a save that ran to its end without a failure, the metadata file
\* is exactly the record of the position saved last, whatever an earlier save
\* left there, and load returns that position.
C13_SaveLoadRoundTrip ==
    (faults = 0 /\ schedPc # "saveWrite" /\ LastSaved >= 1) =>
        /\ metadata = FormatRecord(master[LastSaved].Name, master[LastSaved].Pos)
        /\ getLastBinlogPosition(metadata) = master[LastSaved]

C13_Witness ==
    /\ faults = 0
    /\ fires = 2
    /\ schedPc = "ticker"
    /\ Len(FormatRecord(master[1].Name, master[1].Pos)) >
           Len(FormatRecord(master[2].Name, master[2].Pos))
    /\ pc[1] = "streamData" /\ startPos[1] = master[1]
    /\ pc[2] = "streamData" /\ startPos[2] = master[2]

\* C14: when a fire has run to its end, whether or not its full backup
\* failed, every session of an earlier fire has its cancel signal raised and
\* the session of this fire is started with a cancel signal not yet raised.
C14_FireCancelsAndStarts ==
    schedPc = "ticker" =>
        /\ incCancel = fires
        /\ pc[fires] # "idle"
        /\ ~ctxDone[fires]
        /\ \A r \in 1..(fires - 1) : ctxDone[r]

C14_Witness ==
    /\ schedPc = "ticker"
    /\ fires = 2
    /\ fullErr
    /\ ctxDone[1]
    /\ pc[2] = "start"
    /\ ~ctxDone[2]

\* C15: at most one started session has a cancel signal that is not raised,
\* it is the one started last, and a step raises the cancel signal of the
\* session of the previous fire only.
C15_OneLiveSession ==
    [][/\ Cardinality({ s \in 1..incCancel' : ~ctxDone'[s] }) <= 1
       /\ \A s \in 1..incCancel' : s # incCancel' => ctxDone'[s]
       /\ \A s \in Sessions :
             ctxDone'[s] # ctxDone[s] => (s = incCancel /\ s = fires - 1)]_vars

C15_Witness ==
    /\ incCancel = 2
    /\ ctxDone[1]
    /\ ~ctxDone[2]
    /\ pc[1] = "streamData"
    /\ pc[2] = "streamData"

\* C16: a loop whose cancel signal is raised reaches the end of streamData
\* (or never entered it because StartSync failed) unless the process exits
\* first, and a loop that has ended takes no further step.
C16_CancelStopsLoop ==
    /\ (ctxDone[1] ~> (pc[1] \in {"cancelled", "syncFailed"} \/ ~alive))
    /\ [][pc[1] = "cancelled" =>
             (pc'[1] = "cancelled" /\ UNCHANGED <<ev, evCount, writerVars, delivered>>)]_vars

C16_Witness ==
    /\ pc[1] = "cancelled"
    /\ ctxDone[1]
    /\ evCount >= 2
    /\ buffer # <<>>
    /\ files[firstFile[1]].closed

\* C17: a failed pull in a session that is not cancelled leaves the buffer,
\* the segment files, the size counter, the file index and the tracked log
\* name as they were and takes the loop back to the select, from where it
\* pulls again.
C17_PullErrorRetries ==
    [][\A s \in Sessions :
        /\ (pc[s] = "GetEvent" /\ pc'[s] # pc[s] /\ evCount' = evCount /\ ~ctxDone[s]) =>
              (pc'[s] = "select" /\ UNCHANGED <<writerVars, uploadVars, alive, histVars>>)
        /\ (pc[s] = "select" /\ pc'[s] # pc[s] /\ ~ctxDone[s]) => pc'[s] = "GetEvent"]_vars

C17_Witness ==
    /\ pc[1] = "GetEvent"
    /\ faults = 1
    /\ evCount = 1
    /\ buffer = <<1>>
    /\ weekly = <<1>>
    /\ ~writeFailed

\* C18: the step in which a write of the buffer to a segment file fails
\* leaves the buffer empty.
C18_FailedWriteDropsBuffer ==
    [][(~writeFailed /\ writeFailed') => buffer' = <<>>]_vars

\* C19: the process never exits once the scheduler or the capture loop runs.
C19_ProcessSurvives == alive

\* C20: after every fire but the last one the model allows, failed or not,
\* the scheduler gets back to its ticker and fires again.
C20_FiresAgain ==
    \A k \in 1..(MaxFires - 1) : (fires = k) ~> (fires = k + 1 \/ ~alive)

C20_Witness ==
    /\ fires = 2
    /\ faults = 1
    /\ metadata = Absent
    /\ incCancel = 1

\* C21: the k-th fire after the first one happens exactly k periods of 7 days
\* after the first fire, however long the backups take.
C21_FixedPeriodFromFirstFire ==
    \A k \in 1..Len(fireAt) : fireAt[k] = fireAt[1] + (k - 1) * 7 * DayLen

\* C24: the offset a full backup stores is the server's offset at the moment
\* the dump took its snapshot.
C24_StoredPositionIsSnapshot ==
    (faults = 0 /\ schedPc # "saveWrite" /\ LastSaved >= 1) =>
        getLastBinlogPosition(metadata).Pos = backupRun[LastSaved].snapPos

\* C22: a threshold flush that does not fail writes the whole buffer to the
\* current segment and empties it, and when the processing of a DATA event
\* ends with no write failure so far the buffer is below bufferSize.
C22_BufferBelowThreshold ==
    [][\A s \in Sessions :
        /\ (pc[s] = "threshold" /\ pc'[s] = "capCheck"
              /\ Len(buffer) >= bufferSize /\ ~writeFailed') =>
                /\ buffer' = <<>>
                /\ fileArg[s] = currentFile
                /\ files'[currentFile].data = files[currentFile].data \o buffer
        /\ (InProcessEvent(s) /\ ev[s].kind = "DATA" /\ pc'[s] = "select"
              /\ ~writeFailed') => Len(buffer') < bufferSize]_vars

\* C23: on a DATA event the loop hands StreamBinlogToS3 the buffer with the
\* payload appended and the name of the segment that is current, before any
\* byte of the event is flushed; the upload stores that snapshot or nothing;
\* no step of a ROTATE event calls StreamBinlogToS3 or changes the object.
C23_StreamsCumulativeBuffer ==
    [][\A s \in Sessions :
        /\ (pc[s] = "processEvent" /\ ev[s].kind = "DATA" /\ pc'[s] # pc[s]) =>
              /\ pc'[s] = "StreamBinlogToS3"
              /\ ev'[s].snap = buffer \o ev[s].raw
              /\ fileArg'[s] = currentFile
              /\ UNCHANGED <<files, weekly>>
        /\ (pc[s] = "StreamBinlogToS3" /\ pc'[s] # pc[s]) =>
              /\ weekly' \in {ev[s].snap, weekly}
              /\ UNCHANGED files
        /\ (ev[s].kind = "ROTATE" /\ pc'[s] # pc[s]) =>
              /\ pc'[s] # "StreamBinlogToS3"
              /\ weekly' = weekly]_vars

C23_Witness ==
    /\ pc[1] = "threshold"
    /\ Len(ev[1].raw) = 1
    /\ Len(ev[1].snap) = 2
    /\ weekly = ev[1].snap
    /\ buffer = ev[1].snap
    /\ fileArg[1] = currentFile

\* the name of a segment file, without its timestamp
SegmentName(f) == <<f.binlog, f.index>>

\* C25: a closed segment file keeps its content and stays closed, and no
\* file is created under the name of a closed segment.
C25_RotatedSegmentImmutable ==
    [][\A f \in 1..Len(files) :
         files[f].closed =>
            /\ Len(files') >= f
            /\ files'[f] = files[f]
            /\ \A g \in (Len(files) + 1)..Len(files') :
                  SegmentName(files'[g]) # SegmentName(files[f])]_vars

\* C26: a step of a capture loop leaves the metadata file as it is; the
\* file changes only in a step of saveCurrentBinlogPosition.
C26_LoopNeverWritesCursor ==
    [][/\ \A s \in Sessions : pc'[s] # pc[s] => metadata' = metadata
       /\ metadata' # metadata => (schedPc \in {"save", "saveWrite"} /\ schedPc' # schedPc)]_vars

C26_Witness ==
    /\ metadata = FormatRecord(master[1].Name, master[1].Pos)
    /\ pc[1] = "cancelled"
    /\ evCount >= 2
    /\ Len(files) >= 2

\* C27: a step that returns from StreamBinlogToS3, failed or not, changes
\* nothing of the segment writer and takes the loop on to the threshold
\* check; a step of an upload task changes nothing of the loops and of the
\* segment writer, and it ends the task whether or not the upload failed.
C27_UploadFailureIsAbsorbed ==
    [][/\ \A s \in Sessions :
            (pc[s] = "StreamBinlogToS3" /\ pc'[s] # pc[s]) =>
                (pc'[s] = "threshold" /\ UNCHANGED <<writerVars, ev, tasks, alive>>)
       /\ \A t \in tasks :
            t \notin tasks' => UNCHANGED <<loopVars, writerVars, alive>>
       /\ (faults' # faults /\ UNCHANGED <<pc, alive, schedPc>>) =>
            (tasks' # tasks /\ tasks' \subseteq tasks)]_vars

C27_Witness ==
    /\ pc[1] = "GetEvent"
    /\ evCount = 2
    /\ buffer = <<>>
    /\ files[1].data = <<1, 2>>
    /\ faults = 1
    /\ weekly = <<1>>

\* C29: the sequence numbers of the segment files strictly increase in the
\* order the files were opened.
C29_SequenceNumbersIncrease ==
    \A f \in 1..Len(files) : \A g \in 1..Len(files) :
        f < g => files[f].index < files[g].index

\* the weekday names the scheduler accepts: the full or the three-letter
\* name, capitalised or in lower case
AcceptedWeekdays ==
    {"Sun", "sun", "Sunday", "sunday", "Mon", "mon", "Monday", "monday",
     "Tue", "tue", "Tuesday", "tuesday", "Wed", "wed", "Wednesday", "wednesday",
     "Thu", "thu", "Thursday", "thursday", "Fri", "fri", "Friday", "friday",
     "Sat", "sat", "Saturday", "saturday"}

\* two digits, a colon, two digits
InHHMMForm(s) ==
    /\ Len(s) = 5
    /\ \A i \in {1, 2, 4, 5} : IsDigit(SubSeq(s, i, i))
    /\ SubSeq(s, 3, 3) = ":"

\* an hour from 00 to 23 and a minute from 00 to 59
IsTimeOfDay(s) ==
    /\ 10 * DigitVal(SubSeq(s, 1, 1)) + DigitVal(SubSeq(s, 2, 2)) < 24
    /\ 10 * DigitVal(SubSeq(s, 4, 4)) + DigitVal(SubSeq(s, 5, 5)) < 60

\* C28: enable called with a weekday outside the accepted names or with a
\* time that is not in HH:MM form returns an error, and no full backup is ever
\* run and no capture loop ever started; called with an accepted weekday and a
\* time of day in HH:MM form it starts the scheduler and never returns
C28_InvalidArgumentsRejected ==
    schedPc # "enable" =>
        IF cliArgs.weekday \notin AcceptedWeekdays \/ ~InHHMMForm(cliArgs.hour)
        THEN /\ schedPc = "returned"
             /\ fires = 0
             /\ \A s \in Sessions : pc[s] = "idle"
        ELSE IsTimeOfDay(cliArgs.hour) => schedPc # "returned"

\* the Monday that starts ISO week 1 of year y: the week that holds 4 January
Week1Monday(y) ==
    LET jan4 == AbsDay(y, 3)
    IN  jan4 - (jan4 % 7)

\* the ISO 8601 week-numbering year and week of date t
IsoYear(t) ==
    LET n == AbsDay(t.y, YDay(t))
    IN  CHOOSE y \in {t.y - 1, t.y, t.y + 1} : Week1Monday(y) <= n /\ n < Week1Monday(y + 1)

IsoWeek(t) == (AbsDay(t.y, YDay(t)) - Week1Monday(IsoYear(t))) \div 7 + 1

\* C30: a full-backup file name that starts with the date YYYYMMDD gets the
\* key <isoYear>/<two-digit isoWeek>/<fileName>, and an incremental segment
\* file name gets the key <isoYear>/<isoWeek>/<weekdayName>/<fileName> of the
\* date token in the name, also when the log name in it contains underscores
C30_KeyScheme ==
    s3Key # NoKey =>
        /\ \A t \in Dates :
               SubSeq(fileName, 1, 9) = FormatDate(t) \o "_" /\ fileName \in FullBackupFileNames =>
                   s3Key = [key |-> Itoa(IsoYear(t)) \o "/" \o Pad2(IsoWeek(t)) \o "/" \o fileName,
                            err |-> ""]
        /\ \A log \in LogNames, i \in {0, 12}, t \in Dates, c \in Clocks :
               fileName = SegmentFileName(log, i, t, c) =>
                   s3Key = [key |-> Itoa(IsoYear(t)) \o "/" \o Pad2(IsoWeek(t)) \o "/"
                                       \o WeekdayString(Weekday(t)) \o "/" \o fileName,
                            err |-> ""]

\* C31: the streaming key of a segment is <isoYear>/<isoWeek>/weekly-binlog.log
\* of the date token in its name and depends on nothing else, so all segments
\* of one ISO week share one key; it is the key of no rotated segment and of
\* no full backup
C31_StreamKeyPerIsoWeek ==
    streamKey # NoKey =>
        /\ \A log \in LogNames, i \in {0, 12}, t \in Dates, c \in Clocks :
               fileName = SegmentFileName(log, i, t, c) =>
                   streamKey = [key |-> Itoa(IsoYear(t)) \o "/" \o Pad2(IsoWeek(t)) \o "/"
                                           \o "weekly-binlog.log",
                                err |-> ""]
        /\ \A n \in SegmentFileNames \cup FullBackupFileNames : getS3Key(n).key # streamKey.key

C31_Witness ==
    /\ fileName = "incr_backup_my_db_bin.000003_12_20241231_150405.log"
    /\ streamKey = [key |-> "2025/01/weekly-binlog.log", err |-> ""]
    /\ s3Key.key = "2025/01/Tuesday/incr_backup_my_db_bin.000003_12_20241231_150405.log"

\* C32: in all-databases, single-database and multi-database mode MysqlBackup
\* returns an error whenever a dump or an upload of a backup artifact has
\* failed, and nil only when every dump and every upload succeeded
C32_ErrorIffFailure ==
    mb.pc = "returned" =>
        ((mb.dumpFailed \/ mb.uploadFailed) => mb.err # "")

\* the scheduler is inside MysqlBackup
InFullBackup == schedPc \in {"MysqlBackup", "save", "saveWrite", "upload"}

\* C33: within a fire the full backup returns, then the cancel signal of the
\* previous session is raised, then the new session is started; while the
\* full backup runs the previous session is not cancelled and its loop can
\* pull the next event
C33_BackupThenCancelThenStart ==
    [][/\ ctxDone' # ctxDone => (schedPc = "cancel" /\ schedPc' = "start")
       /\ (schedPc # "cancel" /\ schedPc' = "cancel") => InFullBackup
       /\ \A s \in Sessions :
              (pc[s] = "idle" /\ pc'[s] # "idle") =>
                  /\ schedPc = "start" /\ schedPc' = "ticker"
                  /\ \A r \in 1..(s - 1) : ctxDone[r]
       /\ (InFullBackup /\ incCancel # NoSession) =>
              /\ ~ctxDone[incCancel]
              /\ (alive /\ pc[incCancel] = "GetEvent" /\ evCount < MaxEvents) =>
                     ENABLED GetEventOk(incCancel)]_vars

C33_Witness ==
    /\ fires = 2
    /\ schedPc = "upload"
    /\ incCancel = 1
    /\ ~ctxDone[1]
    /\ pc[1] = "processEvent"
    /\ evCount = 2

\* C34: for every clock reading and every ScheduleSpec the first fire time
\* falls on the configured weekday, at the configured time of day, and no
\* more than 7 days after now
C34_FirstFireOnWeekdayWithinWeek ==
    schedPc = "timer" =>
        /\ (now.wd + nextBackup \div DayLen) % 7 = weekday
        /\ nextBackup % DayLen = hour
        /\ nextBackup - now.tod <= 7 * DayLen

\* C35: the segment opened by a ROTATE event is named after the log identity
\* the event announces, so that the payloads that follow are stored under the
\* identity of their own log
C35_SegmentNamedAfterNextLog ==
    [][\A s \in Sessions :
           (pc[s] = "rotateOpen" /\ ev[s].kind = "ROTATE" /\ pc'[s] = "select") =>
               files'[Len(files')].binlog = ev[s].next]_vars

\* C36: a session that opens its first segment starts with an empty buffer
\* and a flushed-size counter of zero, so that no byte of an earlier session
\* reaches its segments or its snapshots or counts towards its size cap
C36_SessionStartsClean ==
    [][\A s \in Sessions :
           (pc[s] = "streamData" /\ pc'[s] = "select") =>
               (buffer' = <<>> /\ currentSize' = 0)]_vars

\* C37: after the cancel signal of a session has been raised its loop hands
\* at most one more event to the segment writer, the one it had pulled or was
\* pulling when the signal was raised
C37_AtMostOneEventAfterCancel ==
    \A s \in Sessions : applied[s] <= 1

C37_Witness ==
    /\ ctxDone[1]
    /\ applied[1] = 1
    /\ pc[1] = "cancelled"
    /\ evCount = 2

\* C38: when the all-databases dump of a fire fails the metadata record is
\* left as it is, and the capture loop that fire starts resumes from the
\* position stored before; when the dump succeeds the record is written before
\* the upload, so it is the new one also when the upload fails
C38_RecordFollowsDump ==
    [][/\ (schedPc = "MysqlBackup" /\ schedPc' = "cancel") =>
              (fullErr' /\ metadata' = metadata)
       /\ (schedPc = "MysqlBackup" /\ schedPc' # schedPc /\ faults' = faults) => schedPc' = "save"
       /\ metadata' # metadata => schedPc \in {"save", "saveWrite"}
       /\ (schedPc = "upload" /\ schedPc' # schedPc /\ faults = 0) =>
              /\ metadata' = FormatRecord(master[fires].Name, master[fires].Pos)
              /\ schedPc' = "cancel"
       /\ \A k \in 2..MaxFires :
              (/\ pc[k] = "start" /\ pc'[k] # "start"
               /\ fires = k /\ fullErr
               /\ metadata = FormatRecord(master[k - 1].Name, master[k - 1].Pos)) =>
                  startPos'[k] = master[k - 1]]_vars

C38_Witness ==
    /\ fires = 2
    /\ fullErr
    /\ faults = 1
    /\ master[1] # master[2]
    /\ metadata = FormatRecord(master[1].Name, master[1].Pos)
    /\ pc[2] = "streamData"
    /\ startPos[2] = master[1]

\* C39: while the first segment of the session is the current one, every
\* snapshot stored in the rolling remote object extends the snapshot stored
\* before it
C39_SnapshotsExtend ==
    [][(Len(files) = 1 /\ weekly # NoObj /\ weekly' # weekly) =>
           /\ Len(weekly) <= Len(weekly')
           /\ SubSeq(weekly', 1, Len(weekly)) = weekly]_vars

\* C40: every segment file that holds at least one byte is eventually handed
\* to an upload goroutine, also the one that is current when the cancel signal
\* of the session is raised
C40_SegmentEventuallyHanded ==
    \A f \in 1..(MaxEvents + 1) :
        (ctxDone[1] /\ f <= Len(files) /\ files[f].data # <<>>) ~> (f \in handed)

====
